---- MODULE Spec2Model ----
(***************************************************************************)
(* MeshAI: the signaling relay (server/routes.ts, the Socket.IO part) and  *)
(* the peer-connection manager of one client (client/src/lib/mesh-client). *)
(*                                                                         *)
(* Spec        the relay: connect / join / signal / job / chunk /          *)
(*             disconnect events of the relay's sockets.                   *)
(* ClientSpec  one MeshClient: roster events and the resumptions of its    *)
(*             suspended async calls.                                      *)
(* SendSpec, TeardownSpec, SignalSpec, EventSpec, FrameSpec: the same      *)
(* client with its calls, its signals, its channel and connection          *)
(* events, and the frames arriving on its channels.                        *)
(* RosterMeshSpec, ChunkMeshSpec, JobMeshSpec: the relay and the client    *)
(* together.  PairSpec: the relay and two clients facing each other.       *)
(***************************************************************************)
EXTENDS Integers, Sequences, FiniteSets, TLC

\* ------------------------------------------------------------------ bounds
\* Number of sockets that ever connect to the relay.
MaxPeers == 3

\* Socket ids.  A socket id is an arbitrary string, and so is a room name.
AllIds == <<"a", "b", "c", "d", "e">>
Peers == {AllIds[i] : i \in 1..MaxPeers}

\* Room names a client may ask for.  "a" is also the id of a socket: the
\* relay takes any string a client sends.
DefaultRoom == "global"
RoomNames == {DefaultRoom, "r", "a"}
\* The room argument of a join message; "" stands for a missing/falsy room.
JoinArgs == RoomNames \cup {""}
\* The `to` of a signal or chunk: a socket id that is also the name of a
\* room, a socket id that is not, or an id no socket has.
Targets == {"a", "b", "zz"}
\* The `from` a sender may put in its own message.
ClaimedFrom == {"a"}

\* ------------------------------------------------------------------ state
VARIABLES
  \* relay (server/routes.ts)
  status,       \* socket -> "idle" | "connected" | "closed"
  rooms,        \* the Map rooms: room name -> its Set of ids (insertion order)
  currentRoom,  \* socket -> the closure variable currentRoom
  sids,         \* socket -> the Socket.IO adapter rooms the socket is in
  out,          \* socket -> the messages the last event delivered to it
  lastEvent,    \* the event the relay handled last
  joinSent,     \* history: the sockets that have sent a join message
  \* client (client/src/lib/mesh-client.ts)
  peers,        \* the Map peers: peer id -> connection object
  dataChannels, \* the Map dataChannels: peer id -> channel object
  closedPcs,    \* connection objects on which close() was called
  tasks,        \* suspended async calls, each at an await
  nextObj,      \* next fresh object id
  emitted,      \* the signals the client emitted to the relay, in order
  rosterLog,    \* history: the roster messages the client received, in order
  openChs,      \* channel objects whose readyState went "open"
  closedChs,    \* channel objects the far end or the transport closed
  answerers,    \* connection objects created for, or that took, a remote offer
  negotiated,   \* connection objects with both descriptions set
  failedPcs,    \* connection objects whose connectionState went "failed"
  sigLog,       \* history: the signal messages the client received
  owner,        \* connection object -> the peerId its handlers close over
  remoteDesc,   \* connection objects with a remote description
  candidates,   \* <<connection object, outcome>> of each addIceCandidate
  armed,        \* channel objects set up whose close event has not fired
  dropped,      \* history: peers whose connection failed or was closed, with
                \* no roster listing them and no signal from them since
  lastCall,     \* the call on the client the last step made, if it was one
  sent,         \* the job or chunk that call emitted to the relay
  frames,       \* the frames that call wrote to channels
  callbacks,    \* the onJob / onChunk callbacks the last step made
  \* between the relay and the clients
  inbox,        \* socket -> relay messages delivered to it, still to handle
  toRelay,      \* what the client emitted, still to be handled by the relay
  wire,         \* frames written to channels, still to arrive
  received,     \* socket -> the onJob / onChunk callbacks made there
  epoch,        \* history: how many connects, joins and disconnects so far
  bcast,        \* history: the broadcastJob call made, if any
  nChunks,      \* history: how many chunks of the stream were sent
  remote        \* the client at the far socket: pending rosters, connections

relayVars == <<status, rooms, currentRoom, sids, out, lastEvent, joinSent>>
linkVars == <<openChs, closedChs, answerers, negotiated, failedPcs, sigLog>>
objVars == <<owner, remoteDesc, candidates, armed, dropped>>
callVars == <<lastCall, sent, frames, callbacks>>
clientVars == <<peers, dataChannels, closedPcs, tasks, nextObj, emitted, rosterLog,
                linkVars, objVars, callVars>>
meshVars == <<inbox, toRelay, wire, received, epoch, bcast, nChunks, remote>>
vars == <<status, rooms, currentRoom, sids, out, lastEvent, joinSent,
          peers, dataChannels, closedPcs, tasks, nextObj, emitted, rosterLog,
          linkVars, objVars, callVars, meshVars>>

\* ---------------------------------------------------------------- helpers
Range(s) == {s[i] : i \in 1..Len(s)}

\* Set.prototype.delete / add on a Set kept in insertion order.
SetDelete(s, x) == SelectSeq(s, LAMBDA y : y # x)
SetAdd(s, x) == IF x \in Range(s) THEN s ELSE Append(s, x)

\* Map.prototype.delete / set.
MapDelete(m, k) == [x \in DOMAIN m \ {k} |-> m[x]]
MapSet(m, k, v) == [x \in DOMAIN m \cup {k} |-> IF x = k THEN v ELSE m[x]]

\* ------------------------------------------------------------------ relay
\* io.to(target): every socket in adapter room `target`.
IoTo(s, target) == {q \in Peers : target \in s[q]}

\* socket.to(target): io.to(target) without the emitting socket.
SocketTo(s, p, target) == IoTo(s, target) \ {p}

\* One emit: one copy of msg to each target socket.
Emit(targets, msg) == [q \in Peers |-> IF q \in targets THEN <<msg>> ELSE <<>>]

NoOut == [q \in Peers |-> <<>>]

\* Mutant: the previous room's member set is left as it was.
RoomsAfterLeave_KeepsMember(rm, p, cur) == rm

\* Mutant: a room whose last member left stays in the map, empty.
RoomsAfterLeave_KeepsEmptyRoom(rm, p, cur) ==
  IF cur # "" /\ cur \in DOMAIN rm
  THEN [rm EXCEPT ![cur] = SetDelete(rm[cur], p)]
  ELSE rm

\* joinRoom, the part that leaves currentRoom in the rooms map.
RoomsAfterLeave(rm, p, cur) ==
  IF cur # "" /\ cur \in DOMAIN rm
  THEN LET roomPeers == SetDelete(rm[cur], p)
       IN IF Len(roomPeers) = 0 THEN MapDelete(rm, cur)
                                ELSE [rm EXCEPT ![cur] = roomPeers]
  ELSE rm

\* joinRoom, the part that enters `room` in the rooms map.
RoomsAfterAdd(rm, p, room) ==
  LET withRoom == IF room \in DOMAIN rm THEN rm ELSE MapSet(rm, room, <<>>)
  IN [withRoom EXCEPT ![room] = SetAdd(withRoom[room], p)]

\* socket.leave(currentRoom); socket.join(room) on the adapter rooms `base`.
SidsAfterJoin(base, cur, room) ==
  (IF cur # "" THEN base \ {cur} ELSE base) \cup {room}

\* Mutant: the list is taken before the joiner was added.
RosterMsg_WithoutJoiner(rm, room) ==
  [ev |-> "roster",
   peers |-> IF room \in DOMAIN rm
             THEN SubSeq(rm[room], 1, Len(rm[room]) - 1) ELSE <<>>]

\* The roster payload: Array.from(rooms.get(room)).
RosterMsg(rm, room) ==
  [ev |-> "roster", peers |-> IF room \in DOMAIN rm THEN rm[room] ELSE <<>>]

\* Mutant: socket.to(room) instead of io.to(room).
RosterTargets_ExceptJoiner(s, p, room) == SocketTo(s, p, room)

\* The sockets the roster of joinRoom goes to: io.to(room).
RosterTargets(s, p, room) == IoTo(s, room)

\* joinRoom(room) of socket p, whose adapter rooms are `base`.
joinRoom(p, room, base) ==
  LET rm == RoomsAfterAdd(RoomsAfterLeave(rooms, p, currentRoom[p]), p, room)
      s == [sids EXCEPT ![p] = SidsAfterJoin(base, currentRoom[p], room)]
  IN /\ rooms' = rm
     /\ currentRoom' = [currentRoom EXCEPT ![p] = room]
     /\ sids' = s
     /\ out' = Emit(RosterTargets(s, p, room), RosterMsg(rm, room))

\* Mutant: the connection handler does not join the default room.
OnConnection_NoDefaultJoin(p, base) ==
  /\ rooms' = rooms
  /\ currentRoom' = currentRoom
  /\ sids' = [sids EXCEPT ![p] = base]
  /\ out' = NoOut

\* What the connection handler does after its declarations: joinRoom("global").
OnConnection(p, base) == joinRoom(p, DefaultRoom, base)

\* io.on("connection"): Socket.IO has put the socket in the room of its own
\* id; the handler sets currentRoom = "global" and joins the default room.
Connect(p) ==
  /\ status[p] = "idle"
  /\ status' = [status EXCEPT ![p] = "connected"]
  /\ OnConnection(p, {p})
  /\ lastEvent' = [type |-> "connect", peer |-> p, msg |-> <<>>]
  /\ UNCHANGED <<joinSent, clientVars>>

\* room || "global"
RoomOrDefault(room) == IF room = "" THEN DefaultRoom ELSE room

\* socket.on("join").  A client can name a room after a socket id only once
\* it can know that id, that is once that socket has connected.
Join(p, m) ==
  /\ status[p] = "connected"
  /\ m.room \in Peers => status[m.room] # "idle"
  /\ joinRoom(p, RoomOrDefault(m.room), sids[p])
  /\ joinSent' = joinSent \cup {p}
  /\ lastEvent' = [type |-> "join", peer |-> p, msg |-> m]
  /\ UNCHANGED <<status, clientVars>>

\* Mutant: the relay passes on the `from` of the sender's message.
SignalMsg_TrustsSender(p, m) == [ev |-> "signal", from |-> m.from, data |-> m.data]

\* The relayed messages.
SignalMsg(p, m) == [ev |-> "signal", from |-> p, data |-> m.data]
JobMsg(p, m) ==
  [ev |-> "job", id |-> m.id, from |-> p, prompt |-> m.prompt, params |-> m.params]
\* !!done
Truthy(done) == done = "true"
ChunkMsg(p, m) ==
  [ev |-> "chunk", id |-> m.id, from |-> p, text |-> m.text, done |-> Truthy(m.done)]

\* The sockets a signal / job / chunk goes to.
SignalTargets(s, p, m) == IoTo(s, m.to)
JobTargets(s, p, cur) == SocketTo(s, p, cur)
ChunkTargets(s, p, m) == IoTo(s, m.to)

\* socket.on("signal")
Signal(p, m) ==
  /\ status[p] = "connected"
  /\ out' = Emit(SignalTargets(sids, p, m), SignalMsg(p, m))
  /\ lastEvent' = [type |-> "signal", peer |-> p, msg |-> m]
  /\ UNCHANGED <<status, rooms, currentRoom, sids, joinSent, clientVars>>

\* socket.on("job")
Job(p, m) ==
  /\ status[p] = "connected"
  /\ out' = Emit(JobTargets(sids, p, currentRoom[p]), JobMsg(p, m))
  /\ lastEvent' = [type |-> "job", peer |-> p, msg |-> m]
  /\ UNCHANGED <<status, rooms, currentRoom, sids, joinSent, clientVars>>

\* socket.on("chunk")
Chunk(p, m) ==
  /\ status[p] = "connected"
  /\ out' = Emit(ChunkTargets(sids, p, m), ChunkMsg(p, m))
  /\ lastEvent' = [type |-> "chunk", peer |-> p, msg |-> m]
  /\ UNCHANGED <<status, rooms, currentRoom, sids, joinSent, clientVars>>

\* The sockets the roster of a disconnect goes to: io.to(currentRoom).
DisconnectTargets(s, p, cur) == IoTo(s, cur)

\* socket.on("disconnect"): Socket.IO has already taken the socket out of
\* every adapter room when the handler runs.  The socket gets no further
\* event, so its closure (currentRoom) is dropped with it; the event records
\* the room the closure held.
Disconnect(p) ==
  LET cur == currentRoom[p]
      s == [sids EXCEPT ![p] = {}]
  IN /\ status[p] = "connected"
     /\ status' = [status EXCEPT ![p] = "closed"]
     /\ sids' = s
     /\ IF cur # "" /\ cur \in DOMAIN rooms
        THEN LET roomPeers == SetDelete(rooms[cur], p)
             IN IF Len(roomPeers) = 0
                THEN /\ rooms' = MapDelete(rooms, cur)
                     /\ out' = NoOut
                ELSE /\ rooms' = [rooms EXCEPT ![cur] = roomPeers]
                     /\ out' = Emit(DisconnectTargets(s, p, cur),
                                    [ev |-> "roster", peers |-> roomPeers])
        ELSE /\ rooms' = rooms
             /\ out' = NoOut
     /\ currentRoom' = [currentRoom EXCEPT ![p] = DefaultRoom]
     /\ joinSent' = joinSent \ {p}
     /\ lastEvent' = [type |-> "disconnect", peer |-> p, msg |-> [room |-> cur]]
     /\ UNCHANGED clientVars

\* The messages clients may send.  A sender may put a `from` of its own
\* choosing in any of them.
JoinMsgs == [room : JoinArgs]
SignalMsgs == [to : Targets, from : ClaimedFrom, data : {"offer"}]
JobMsgs == [id : {"j1"}, from : ClaimedFrom, prompt : {"hi"}, params : {"p"},
            messageId : {"m1"}]
ChunkMsgs == [id : {"c1"}, to : Targets, from : ClaimedFrom, text : {"t"},
              done : {"true", "undefined"}, messageId : {"m1"}]

\* No call is made on the client in a step of one of its handlers: nothing
\* is emitted for a job or chunk, no frame is written.
Idle == [op |-> "none", peer |-> "", msg |-> <<>>]
NoCall ==
  lastCall' = Idle /\ sent' = <<>> /\ frames' = <<>> /\ callbacks' = <<>>

RelayInit ==
  /\ status = [p \in Peers |-> "idle"]
  /\ rooms = <<>>
  /\ currentRoom = [p \in Peers |-> DefaultRoom]
  /\ sids = [p \in Peers |-> {}]
  /\ out = NoOut
  /\ lastEvent = [type |-> "init", peer |-> "", msg |-> <<>>]
  /\ joinSent = {}

ClientInit ==
  /\ peers = <<>>
  /\ dataChannels = <<>>
  /\ closedPcs = {}
  /\ tasks = {}
  /\ nextObj = 1
  /\ emitted = <<>>
  /\ rosterLog = <<>>
  /\ openChs = {}
  /\ closedChs = {}
  /\ answerers = {}
  /\ negotiated = {}
  /\ failedPcs = {}
  /\ sigLog = {}
  /\ owner = <<>>
  /\ remoteDesc = {}
  /\ candidates = {}
  /\ armed = {}
  /\ dropped = {}
  /\ lastCall = Idle
  /\ sent = <<>>
  /\ frames = <<>>
  /\ callbacks = <<>>

MeshInit ==
  /\ inbox = [q \in Peers |-> <<>>]
  /\ toRelay = <<>>
  /\ wire = <<>>
  /\ received = [q \in Peers |-> <<>>]
  /\ epoch = 0
  /\ bcast = [n |-> 0, epoch |-> 0, direct |-> <<>>]
  /\ nChunks = 0
  /\ remote = [rosters |-> <<>>, peers |-> <<>>, tasks |-> {}, nextObj |-> 1]

Init == RelayInit /\ ClientInit /\ MeshInit

Next ==
  \/ (\E p \in Peers : Connect(p)) /\ UNCHANGED meshVars
  \/ (\E p \in Peers, m \in JoinMsgs : Join(p, m)) /\ UNCHANGED meshVars
  \/ (\E p \in Peers, m \in SignalMsgs : Signal(p, m)) /\ UNCHANGED meshVars
  \/ (\E p \in Peers, m \in JobMsgs : Job(p, m)) /\ UNCHANGED meshVars
  \/ (\E p \in Peers, m \in ChunkMsgs : Chunk(p, m)) /\ UNCHANGED meshVars
  \/ (\E p \in Peers : Disconnect(p)) /\ UNCHANGED meshVars

Spec == Init /\ [][Next]_vars

\* ----------------------------------------------------------------- client
\* The client modelled: its socket id, and how many rosters it is sent.
MyId == "a"
MaxRosters == 2

\* A roster message: the ids of a room's Set, in insertion order.
RosterSeqs ==
  {s \in UNION {[1..n -> Peers] : n \in 0..MaxPeers} :
     \A i, j \in 1..Len(s) : i # j => s[i] # s[j]}

\* What the client's roster handler makes of a roster message: the ids
\* other than its own (peers.filter(id => id !== this.socket?.id)).
OtherPeers(myId, peerIds) == SelectSeq(peerIds, LAMBDA id : id # myId)

Restrict(m, keys) == [x \in keys |-> m[x]]

\* Mutant: a channel is created whatever `initiator` says.
createPeerConnection_AlwaysChannel(c, peerId, initiator) ==
  [peers |-> MapSet(c.peers, peerId, c.nextObj),
   dataChannels |-> MapSet(c.dataChannels, peerId, c.nextObj),
   nextObj |-> c.nextObj + 1]

\* createPeerConnection up to its first await: a new connection object is
\* registered for peerId; an initiator also creates and registers a channel.
\* c is the client's maps and object counter.
createPeerConnection(c, peerId, initiator) ==
  [peers |-> MapSet(c.peers, peerId, c.nextObj),
   dataChannels |-> IF initiator THEN MapSet(c.dataChannels, peerId, c.nextObj)
                                 ELSE c.dataChannels,
   nextObj |-> c.nextObj + 1]

\* Index of the first id of todo that has no entry in ps (0: none).
FirstNew(ps, todo) ==
  LET idx == {i \in 1..Len(todo) : todo[i] \notin DOMAIN ps}
  IN IF idx = {} THEN 0 ELSE CHOOSE i \in idx : \A j \in idx : i <= j

\* The "add new peers" loop of updatePeerConnections over the ids todo, from
\* the maps ps and dcs, up to its next await: ids that have a connection are
\* passed over; for the first that has none a connection is created as
\* initiator and the call suspends awaiting createOffer, the rest of the
\* ids still to do.
AddNewPeers(ps, dcs, ts, todo) ==
  LET i == FirstNew(ps, todo)
  IN IF i = 0
     THEN /\ peers' = ps
          /\ dataChannels' = dcs
          /\ tasks' = ts
          /\ nextObj' = nextObj
          /\ owner' = owner
          /\ armed' = armed
     ELSE LET c == createPeerConnection(
                     [peers |-> ps, dataChannels |-> dcs, nextObj |-> nextObj],
                     todo[i], TRUE)
          IN /\ peers' = c.peers
             /\ dataChannels' = c.dataChannels
             /\ nextObj' = c.nextObj
             /\ owner' = MapSet(owner, nextObj, todo[i])
             /\ armed' = armed \cup {c.dataChannels[todo[i]]}
             /\ tasks' = ts \cup {[pc |-> nextObj, peer |-> todo[i],
                                   at |-> "createOffer",
                                   todo |-> SubSeq(todo, i + 1, Len(todo))]}

\* updatePeerConnections(peerIds) up to its first await: connections to ids
\* outside the target are closed and dropped from both maps, then the add
\* loop starts.
updatePeerConnections(peerIds) ==
  LET targetPeers == OtherPeers(MyId, peerIds)
      old == DOMAIN peers \ Range(targetPeers)
  IN /\ closedPcs' = closedPcs \cup {peers[x] : x \in old}
     /\ AddNewPeers(Restrict(peers, DOMAIN peers \ old),
                    Restrict(dataChannels, DOMAIN dataChannels \ old),
                    tasks, targetPeers)

\* socket.on('roster')
Roster(peerIds) ==
  /\ Len(rosterLog) < MaxRosters
  /\ rosterLog' = Append(rosterLog, peerIds)
  /\ updatePeerConnections(peerIds)
  /\ NoCall
  /\ dropped' = (dropped \cup DOMAIN peers) \ Range(peerIds)
  /\ UNCHANGED <<emitted, relayVars, linkVars,
                 remoteDesc, candidates>>

\* await pc.createOffer() resolves: the call goes on to setLocalDescription.
OfferCreated(t) ==
  /\ t \in tasks
  /\ t.at = "createOffer"
  /\ t.pc \notin closedPcs
  /\ tasks' = (tasks \ {t}) \cup {[t EXCEPT !.at = "setLocalDescription"]}
  /\ NoCall
  /\ UNCHANGED <<peers, dataChannels, closedPcs, nextObj, emitted, rosterLog,
                 relayVars, linkVars,
                 owner, remoteDesc, candidates, armed, dropped>>

\* await pc.setLocalDescription(offer) resolves: the offer is emitted,
\* createPeerConnection returns and the add loop of the suspended
\* updatePeerConnections goes on with the ids it has left.
LocalDescriptionSet(t) ==
  /\ t \in tasks
  /\ t.at = "setLocalDescription"
  /\ t.pc \notin closedPcs
  /\ emitted' = Append(emitted, [to |-> t.peer, data |-> "offer"])
  /\ AddNewPeers(peers, dataChannels, tasks \ {t}, t.todo)
  /\ NoCall
  /\ UNCHANGED <<closedPcs, rosterLog, relayVars, linkVars,
                 remoteDesc, candidates, dropped>>

\* The connection was closed while the call awaited it: the awaited promise
\* rejects (the call ends there, the rest of its loop is never run) or never
\* settles (the call stays suspended; this action is then never taken).
NegotiationRejected(t) ==
  /\ t \in tasks
  /\ t.pc \in closedPcs
  /\ tasks' = tasks \ {t}
  /\ NoCall
  /\ UNCHANGED <<peers, dataChannels, closedPcs, nextObj, emitted, rosterLog,
                 relayVars, linkVars,
                 owner, remoteDesc, candidates, armed, dropped>>

ClientNext ==
  \/ (\E r \in RosterSeqs : Roster(r)) /\ UNCHANGED meshVars
  \/ (\E t \in tasks : OfferCreated(t)) /\ UNCHANGED meshVars
  \/ (\E t \in tasks : LocalDescriptionSet(t)) /\ UNCHANGED meshVars
  \/ (\E t \in tasks : NegotiationRejected(t)) /\ UNCHANGED meshVars

ClientSpec == Init /\ [][ClientNext]_vars

\* ------------------------------------------- client: signals and channels

SignalData == {"offer", "answer", "candidate"}
\* The chunks a caller may pass to sendChunk.
ClientChunks == [id : {"c1"}, from : ClaimedFrom, text : {"t"},
                 done : {"true", "undefined"}, messageId : {"m1"}]

\* Channel objects: the channel the initiator creates on connection object
\* pc (createDataChannel) is pc, the one the far end announces on pc
\* (ondatachannel) is -pc.
ChPc(ch) == IF ch < 0 THEN 0 - ch ELSE ch
InboundCh(pc) == 0 - pc

\* dc.readyState
readyState(ch) ==
  IF ChPc(ch) \in closedPcs \cup failedPcs \/ ch \in closedChs THEN "closed"
  ELSE IF ch \in openChs THEN "open"
  ELSE "connecting"

\* The connection has both descriptions and is neither closed nor failed.
Established(pc) == pc \in negotiated /\ pc \notin closedPcs \cup failedPcs

\* The awaits of the initiator's side of createPeerConnection.
OfferAwaits == {"createOffer", "setLocalDescription"}
\* The awaits of handleSignal.
SignalAwaits == {"setRemoteOffer", "createAnswer", "setLocalAnswer",
                 "setRemoteAnswer", "addIceCandidate"}
\* The first await of handleSignal for each kind of data.
SignalAwait(data) ==
  CASE data = "offer" -> "setRemoteOffer"
    [] data = "answer" -> "setRemoteAnswer"
    [] OTHER -> "addIceCandidate"

\* handleSignal(from, data) up to its first await: without a connection for
\* `from` one is created as non-initiator (its await yields no other event);
\* then the call suspends in the branch of the data's kind.  A peer sends
\* each kind of signal once.
HandleSignal(from, data) ==
  LET have == from \in DOMAIN peers
      c == IF have
           THEN [peers |-> peers, dataChannels |-> dataChannels, nextObj |-> nextObj]
           ELSE createPeerConnection(
                  [peers |-> peers, dataChannels |-> dataChannels,
                   nextObj |-> nextObj], from, FALSE)
      pc == c.peers[from]
  IN /\ <<from, data>> \notin sigLog
     /\ sigLog' = sigLog \cup {<<from, data>>}
     /\ peers' = c.peers
     /\ dataChannels' = c.dataChannels
     /\ nextObj' = c.nextObj
     /\ answerers' = IF have THEN answerers ELSE answerers \cup {pc}
     /\ tasks' = tasks \cup {[pc |-> pc, peer |-> from, at |-> SignalAwait(data),
                              todo |-> <<>>]}
     /\ owner' = IF have THEN owner ELSE MapSet(owner, nextObj, from)
     /\ NoCall
     /\ dropped' = dropped \ {from}
     /\ UNCHANGED <<closedPcs, emitted, rosterLog, openChs, closedChs,
                    negotiated, failedPcs, relayVars,
                    remoteDesc, candidates, armed>>

\* await pc.setRemoteDescription(offer) resolves.  An initiator's call still
\* awaiting its own offer on pc is then rejected: setLocalDescription(offer)
\* is refused once a remote offer is set.
RemoteOfferSet(t) ==
  /\ t \in tasks
  /\ t.at = "setRemoteOffer"
  /\ t.pc \notin closedPcs \cup failedPcs
  /\ tasks' = {u \in tasks \ {t} : ~(u.pc = t.pc /\ u.at \in OfferAwaits)}
              \cup {[t EXCEPT !.at = "createAnswer"]}
  /\ remoteDesc' = remoteDesc \cup {t.pc}
  /\ NoCall
  /\ UNCHANGED <<peers, dataChannels, closedPcs, nextObj, emitted, rosterLog,
                 relayVars, linkVars,
                 owner, candidates, armed, dropped>>

\* await pc.createAnswer() resolves.
AnswerCreated(t) ==
  /\ t \in tasks
  /\ t.at = "createAnswer"
  /\ t.pc \notin closedPcs \cup failedPcs
  /\ tasks' = (tasks \ {t}) \cup {[t EXCEPT !.at = "setLocalAnswer"]}
  /\ NoCall
  /\ UNCHANGED <<peers, dataChannels, closedPcs, nextObj, emitted, rosterLog,
                 relayVars, linkVars,
                 owner, remoteDesc, candidates, armed, dropped>>

\* await pc.setLocalDescription(answer) resolves: the answer is emitted.
LocalAnswerSet(t) ==
  /\ t \in tasks
  /\ t.at = "setLocalAnswer"
  /\ t.pc \notin closedPcs \cup failedPcs
  /\ tasks' = tasks \ {t}
  /\ emitted' = Append(emitted, [to |-> t.peer, data |-> "answer"])
  /\ negotiated' = negotiated \cup {t.pc}
  /\ answerers' = answerers \cup {t.pc}
  /\ NoCall
  /\ UNCHANGED <<peers, dataChannels, closedPcs, nextObj, rosterLog, openChs,
                 closedChs, failedPcs, sigLog, relayVars,
                 owner, remoteDesc, candidates, armed, dropped>>

\* await pc.setRemoteDescription(answer) resolves: pc had sent its own offer
\* and has no remote description yet.
RemoteAnswerSet(t) ==
  /\ t \in tasks
  /\ t.at = "setRemoteAnswer"
  /\ t.pc \notin closedPcs \cup failedPcs \cup answerers \cup negotiated
  /\ ~\E u \in tasks : u.pc = t.pc /\ u.at \in OfferAwaits
  /\ tasks' = tasks \ {t}
  /\ negotiated' = negotiated \cup {t.pc}
  /\ remoteDesc' = remoteDesc \cup {t.pc}
  /\ NoCall
  /\ UNCHANGED <<peers, dataChannels, closedPcs, nextObj, emitted, rosterLog,
                 openChs, closedChs, answerers, failedPcs, sigLog, relayVars,
                 owner, candidates, armed, dropped>>

\* What pc.addIceCandidate(candidate) comes to: the candidate is added when
\* pc has a remote description; with none the call rejects and the candidate
\* is gone (handleSignal keeps no queue).
CandidateOutcome(pc) ==
  IF pc \in remoteDesc /\ pc \notin closedPcs THEN "applied" ELSE "rejected"

\* An await of handleSignal rejects (wrong signaling state, bad description
\* or candidate), or its last one, addIceCandidate, resolves: the call ends.
\* addIceCandidate runs after the descriptions already being set on pc.
SignalSettled(t) ==
  /\ t \in tasks
  /\ t.at \in SignalAwaits
  /\ t.at = "addIceCandidate" =>
       ~\E u \in tasks :
          u.pc = t.pc /\ u.at \in {"setRemoteOffer", "setRemoteAnswer"}
  /\ tasks' = tasks \ {t}
  /\ candidates' = IF t.at = "addIceCandidate"
                   THEN candidates \cup {<<t.pc, CandidateOutcome(t.pc)>>}
                   ELSE candidates
  /\ NoCall
  /\ UNCHANGED <<peers, dataChannels, closedPcs, nextObj, emitted, rosterLog,
                 relayVars, linkVars, owner, remoteDesc, armed, dropped>>

\* The far end's channel is announced on the connection for p
\* (pc.ondatachannel): it is open, and setupDataChannel registers it for p.
InboundChannel(p) ==
  /\ p \in DOMAIN peers
  /\ Established(peers[p])
  /\ peers[p] \in answerers
  /\ InboundCh(peers[p]) \notin openChs \cup closedChs
  /\ dataChannels' = MapSet(dataChannels, p, InboundCh(peers[p]))
  /\ openChs' = openChs \cup {InboundCh(peers[p])}
  /\ armed' = armed \cup {InboundCh(peers[p])}
  /\ NoCall
  /\ UNCHANGED <<peers, closedPcs, tasks, nextObj, emitted, rosterLog,
                 closedChs, answerers, negotiated, failedPcs, sigLog,
                 relayVars,
                 owner, remoteDesc, candidates, dropped>>

\* The channel registered for p opens (dc.onopen only logs).
ChannelOpen(p) ==
  /\ p \in DOMAIN dataChannels
  /\ readyState(dataChannels[p]) = "connecting"
  /\ Established(ChPc(dataChannels[p]))
  /\ openChs' = openChs \cup {dataChannels[p]}
  /\ NoCall
  /\ UNCHANGED <<peers, dataChannels, closedPcs, tasks, nextObj, emitted,
                 rosterLog, closedChs, answerers, negotiated, failedPcs, sigLog,
                 relayVars,
                 owner, remoteDesc, candidates, armed, dropped>>

\* The far end or the transport closes the channel registered for p: its
\* readyState is "closed" from now on, its close event is still to come.
ChannelClosing(p) ==
  /\ p \in DOMAIN dataChannels
  /\ readyState(dataChannels[p]) # "closed"
  /\ closedChs' = closedChs \cup {dataChannels[p]}
  /\ NoCall
  /\ UNCHANGED <<peers, dataChannels, closedPcs, tasks, nextObj, emitted,
                 rosterLog, openChs, answerers, negotiated, failedPcs, sigLog,
                 relayVars,
                 owner, remoteDesc, candidates, armed, dropped>>

\* dc.onclose of the channel registered for p.
ChannelCloseEvent(p) ==
  /\ p \in DOMAIN dataChannels
  /\ dataChannels[p] \in closedChs
  /\ dataChannels' = MapDelete(dataChannels, p)
  /\ armed' = armed \ {dataChannels[p]}
  /\ NoCall
  /\ UNCHANGED <<peers, closedPcs, tasks, nextObj, emitted, rosterLog,
                 relayVars, linkVars,
                 owner, remoteDesc, candidates, dropped>>

\* dc.onclose of a channel object that is not the one registered for the
\* peerId its handler closes over: the handler deletes that peerId's entry
\* all the same.  Whether a channel of a connection closed with pc.close()
\* gets a close event depends on the browser; here it may.
StaleChannelClose(ch) ==
  LET p == owner[ChPc(ch)]
  IN /\ ch \in armed
     /\ readyState(ch) = "closed"
     /\ ~(p \in DOMAIN dataChannels /\ dataChannels[p] = ch)
     /\ dataChannels' = MapDelete(dataChannels, p)
     /\ armed' = armed \ {ch}
     /\ NoCall
     /\ UNCHANGED <<peers, closedPcs, tasks, nextObj, emitted, rosterLog,
                    relayVars, linkVars, owner, remoteDesc, candidates, dropped>>

\* Mutant: the state-change handler leaves the channel entry.
ChannelsAfterFailure_Kept(dcs, p) == dcs

\* this.dataChannels.delete(peerId) of pc.onconnectionstatechange.
ChannelsAfterFailure(dcs, p) == MapDelete(dcs, p)

\* pc.onconnectionstatechange with connectionState "failed", on the
\* connection registered for p.  A connection that is not registered was
\* closed or has failed before, and changes state no more.
ConnFailed(p) ==
  /\ p \in DOMAIN peers
  /\ Established(peers[p])
  /\ failedPcs' = failedPcs \cup {peers[p]}
  /\ peers' = MapDelete(peers, p)
  /\ dataChannels' = ChannelsAfterFailure(dataChannels, p)
  /\ NoCall
  /\ dropped' = dropped \cup {p}
  /\ UNCHANGED <<closedPcs, tasks, nextObj, emitted, rosterLog, openChs,
                 closedChs, answerers, negotiated, sigLog, relayVars,
                 owner, remoteDesc, candidates, armed>>

\* JSON.stringify drops the keys whose value is undefined; JSON.parse gives
\* back what is left.
DropUndefined(rec) == [k \in {x \in DOMAIN rec : rec[x] # "undefined"} |-> rec[k]]
JsonStringify(msg) ==
  [json |-> [type |-> msg.type, payload |-> DropUndefined(msg.payload)]]
JsonParse(str) == str.json

\* The frames a channel may deliver: a job, a chunk, a message of another
\* type, an object without a type, the JSON text null, and text that is no
\* JSON.
RawFrames ==
  {[json |-> [type |-> "job", payload |-> [id |-> "j1"]]],
   [json |-> [type |-> "chunk", payload |-> [id |-> "c1"]]],
   [json |-> [type |-> "ping", payload |-> [id |-> "x1"]]],
   [json |-> [payload |-> [id |-> "x1"]]],
   [json |-> [null |-> TRUE]],
   [text |-> "{"]}

\* JSON.parse(event.data) returns; it throws for text that is no JSON.
Parses(data) == "json" \in DOMAIN data

\* message.type; reading it off null throws, off an object without the key
\* gives undefined.
TypeOf(message) == IF "type" \in DOMAIN message THEN message.type ELSE "undefined"

\* Mutant: every message that is no job is given to onChunk.
onmessage_ChunkOtherwise(data) ==
  IF ~Parses(data) THEN <<>>
  ELSE LET message == JsonParse(data)
       IN IF TypeOf(message) = "job"
          THEN <<[cb |-> "onJob", via |-> "direct", arg |-> message.payload]>>
          ELSE <<[cb |-> "onChunk", via |-> "direct", arg |-> message.payload]>>

\* dc.onmessage: the callbacks it makes for a frame.  Whatever is thrown in
\* the try block is caught and logged.
onmessage(data) ==
  IF ~Parses(data) THEN <<>>
  ELSE LET message == JsonParse(data)
       IN IF TypeOf(message) = "job"
          THEN <<[cb |-> "onJob", via |-> "direct", arg |-> message.payload]>>
          ELSE IF TypeOf(message) = "chunk"
          THEN <<[cb |-> "onChunk", via |-> "direct", arg |-> message.payload]>>
          ELSE <<>>

\* A frame arrives on the open channel registered for p.
Message(p, data) ==
  /\ p \in DOMAIN dataChannels
  /\ readyState(dataChannels[p]) = "open"
  /\ lastCall' = [op |-> "onmessage", peer |-> p, msg |-> data]
  /\ sent' = <<>>
  /\ frames' = <<>>
  /\ callbacks' = onmessage(data)
  /\ UNCHANGED <<peers, dataChannels, closedPcs, tasks, nextObj, emitted,
                 rosterLog, relayVars, linkVars, objVars>>

\* {...chunk, to: peerId}
WithTo(chunk, peerId) ==
  [k \in DOMAIN chunk \cup {"to"} |-> IF k = "to" THEN peerId ELSE chunk[k]]

\* Mutant: a channel is written to whatever its readyState.
Writable_AnyState(ch) == TRUE

\* dc.readyState === 'open'
Writable(ch) == readyState(ch) = "open"

\* Mutant: sendChunk goes over every registered channel, as broadcastJob does.
ChunkChannels_All(dcs, peerId) == SelectSeq(AllIds, LAMBDA p : p \in DOMAIN dcs)

\* The entries of dataChannels sendChunk looks at: dataChannels.get(peerId).
ChunkChannels(dcs, peerId) == IF peerId \in DOMAIN dcs THEN <<peerId>> ELSE <<>>

\* Mutant: broadcastJob writes to no channel.
JobChannels_None(dcs) == <<>>

\* The entries of dataChannels broadcastJob looks at: all of them.
JobChannels(dcs) == SelectSeq(AllIds, LAMBDA p : p \in DOMAIN dcs)

\* dc.send(JSON.stringify({type, payload})) on each writable channel among
\* the entries `entries` of dataChannels.
DirectFrames(entries, type, payload) ==
  LET open == SelectSeq(entries, LAMBDA p : Writable(dataChannels[p]))
  IN [i \in 1..Len(open) |->
        [ch |-> dataChannels[open[i]], peer |-> open[i],
         data |-> JsonStringify([type |-> type, payload |-> payload])]]

\* The record of a call.
Call(op, peerId, msg) == [op |-> op, peer |-> peerId, msg |-> msg]

\* broadcastJob(job)
BroadcastJob(job) ==
  /\ lastCall' = Call("broadcastJob", "", job)
  /\ sent' = <<[ev |-> "job", msg |-> job]>>
  /\ frames' = DirectFrames(JobChannels(dataChannels), "job", job)
  /\ callbacks' = <<>>
  /\ UNCHANGED <<peers, dataChannels, closedPcs, tasks, nextObj, emitted,
                 rosterLog, openChs, closedChs, answerers, negotiated, failedPcs,
                 sigLog, relayVars,
                 owner, remoteDesc, candidates, armed, dropped>>

\* sendChunk(peerId, chunk)
SendChunk(peerId, chunk) ==
  /\ lastCall' = Call("sendChunk", peerId, chunk)
  /\ sent' = <<[ev |-> "chunk", msg |-> WithTo(chunk, peerId)]>>
  /\ frames' = DirectFrames(ChunkChannels(dataChannels, peerId), "chunk", chunk)
  /\ callbacks' = <<>>
  /\ UNCHANGED <<peers, dataChannels, closedPcs, tasks, nextObj, emitted,
                 rosterLog, openChs, closedChs, answerers, negotiated, failedPcs,
                 sigLog, relayVars,
                 owner, remoteDesc, candidates, armed, dropped>>

\* Mutant: cleanup drops the connections without closing them.
ClosedByCleanup_None(ps, closed) == closed

\* cleanup, its forEach(pc => pc.close()).
ClosedByCleanup(ps, closed) == closed \cup {ps[x] : x \in DOMAIN ps}

\* cleanup(): every connection is closed and both maps are cleared.
cleanup ==
  /\ closedPcs' = ClosedByCleanup(peers, closedPcs)
  /\ peers' = <<>>
  /\ dataChannels' = <<>>

\* disconnect() called on the client ("disconnect"), or the socket's
\* 'disconnect' event ("socketDisconnect"): both run cleanup.
ClientDisconnect(op) ==
  /\ lastCall' = Call(op, "", <<>>)
  /\ sent' = <<>>
  /\ frames' = <<>>
  /\ cleanup
  /\ callbacks' = <<>>
  /\ dropped' = dropped \cup DOMAIN peers
  /\ UNCHANGED <<tasks, nextObj, emitted, rosterLog, openChs, closedChs,
                 answerers, negotiated, failedPcs, sigLog, relayVars,
                 owner, remoteDesc, candidates, armed>>

\* The targets of the calls and the rosters of the sending client.
SendTargets == {"b", "c"}
SendRosters == {<<MyId, "b">>, <<"b", MyId, "c">>, <<MyId>>}

\* One client that sends: it reconciles rosters, gets answers to its offers,
\* sees its channels open and close, and is called with jobs and chunks.
SendNext ==
  \/ (\E r \in SendRosters : Roster(r)) /\ UNCHANGED meshVars
  \/ (\E t \in tasks : OfferCreated(t)) /\ UNCHANGED meshVars
  \/ (\E t \in tasks : LocalDescriptionSet(t)) /\ UNCHANGED meshVars
  \/ (\E t \in tasks : NegotiationRejected(t)) /\ UNCHANGED meshVars
  \/ (\E from \in SendTargets : HandleSignal(from, "answer")) /\ UNCHANGED meshVars
  \/ (\E t \in tasks : RemoteAnswerSet(t)) /\ UNCHANGED meshVars
  \/ (\E t \in tasks : SignalSettled(t)) /\ UNCHANGED meshVars
  \/ (\E p \in Peers : ChannelOpen(p)) /\ UNCHANGED meshVars
  \/ (\E p \in Peers : ChannelClosing(p)) /\ UNCHANGED meshVars
  \/ (\E p \in Peers : ChannelCloseEvent(p)) /\ UNCHANGED meshVars
  \/ (\E job \in JobMsgs : BroadcastJob(job)) /\ UNCHANGED meshVars
  \/ (\E p \in SendTargets, chunk \in ClientChunks : SendChunk(p, chunk)) /\ UNCHANGED meshVars

SendSpec == Init /\ [][SendNext]_vars

\* One client that is torn down: rosters, offers and answers (the handler of
\* a candidate ends at its one await), failing connections, and disconnects
\* at any moment.
TeardownRosters == {<<MyId, "b", "c">>, <<MyId>>}
TeardownSenders == {"b"}
TeardownData == {"offer", "answer"}
TeardownNext ==
  \/ (\E r \in TeardownRosters : Roster(r)) /\ UNCHANGED meshVars
  \/ (\E t \in tasks : OfferCreated(t)) /\ UNCHANGED meshVars
  \/ (\E t \in tasks : LocalDescriptionSet(t)) /\ UNCHANGED meshVars
  \/ (\E t \in tasks : NegotiationRejected(t)) /\ UNCHANGED meshVars
  \/ (\E from \in TeardownSenders, data \in TeardownData : HandleSignal(from, data)) /\ UNCHANGED meshVars
  \/ (\E t \in tasks : RemoteOfferSet(t)) /\ UNCHANGED meshVars
  \/ (\E t \in tasks : AnswerCreated(t)) /\ UNCHANGED meshVars
  \/ (\E t \in tasks : LocalAnswerSet(t)) /\ UNCHANGED meshVars
  \/ (\E t \in tasks : RemoteAnswerSet(t)) /\ UNCHANGED meshVars
  \/ (\E t \in tasks : SignalSettled(t)) /\ UNCHANGED meshVars
  \/ (\E p \in Peers : InboundChannel(p)) /\ UNCHANGED meshVars
  \/ (\E p \in Peers : ConnFailed(p)) /\ UNCHANGED meshVars
  \/ (\E op \in {"disconnect", "socketDisconnect"} : ClientDisconnect(op)) /\ UNCHANGED meshVars

TeardownSpec == Init /\ [][TeardownNext]_vars

\* The senders and kinds of the signals, and the rosters, of the client that
\* is signalled.
SignalSenders == {"b"}
SignalRosters == {<<MyId, "b">>, <<MyId>>}

\* One client that is signalled: it reconciles rosters and handles offers,
\* answers and candidates.
SignalNext ==
  \/ (\E r \in SignalRosters : Roster(r)) /\ UNCHANGED meshVars
  \/ (\E t \in tasks : OfferCreated(t)) /\ UNCHANGED meshVars
  \/ (\E t \in tasks : LocalDescriptionSet(t)) /\ UNCHANGED meshVars
  \/ (\E t \in tasks : NegotiationRejected(t)) /\ UNCHANGED meshVars
  \/ (\E from \in SignalSenders, data \in SignalData : HandleSignal(from, data))
       /\ UNCHANGED meshVars
  \/ (\E t \in tasks : RemoteOfferSet(t)) /\ UNCHANGED meshVars
  \/ (\E t \in tasks : AnswerCreated(t)) /\ UNCHANGED meshVars
  \/ (\E t \in tasks : LocalAnswerSet(t)) /\ UNCHANGED meshVars
  \/ (\E t \in tasks : RemoteAnswerSet(t)) /\ UNCHANGED meshVars
  \/ (\E t \in tasks : SignalSettled(t)) /\ UNCHANGED meshVars

SignalSpec == Init /\ [][SignalNext]_vars

\* The rosters and signals of the client whose connections and channels
\* fail and close.
EventRosters == {<<MyId, "c", "b">>, <<MyId>>}
EventSenders == {"b"}
EventData == {"offer", "answer"}

\* One client with all its events: rosters, signals, the resumptions of its
\* calls, channels announced, opening and closing, connections failing.
EventNext ==
  \/ (\E r \in EventRosters : Roster(r)) /\ UNCHANGED meshVars
  \/ (\E t \in tasks : OfferCreated(t)) /\ UNCHANGED meshVars
  \/ (\E t \in tasks : LocalDescriptionSet(t)) /\ UNCHANGED meshVars
  \/ (\E t \in tasks : NegotiationRejected(t)) /\ UNCHANGED meshVars
  \/ (\E from \in EventSenders, data \in EventData : HandleSignal(from, data))
       /\ UNCHANGED meshVars
  \/ (\E t \in tasks : RemoteOfferSet(t)) /\ UNCHANGED meshVars
  \/ (\E t \in tasks : AnswerCreated(t)) /\ UNCHANGED meshVars
  \/ (\E t \in tasks : LocalAnswerSet(t)) /\ UNCHANGED meshVars
  \/ (\E t \in tasks : RemoteAnswerSet(t)) /\ UNCHANGED meshVars
  \/ (\E t \in tasks : SignalSettled(t)) /\ UNCHANGED meshVars
  \/ (\E p \in Peers : InboundChannel(p)) /\ UNCHANGED meshVars
  \/ (\E p \in Peers : ChannelOpen(p)) /\ UNCHANGED meshVars
  \/ (\E p \in Peers : ChannelClosing(p)) /\ UNCHANGED meshVars
  \/ (\E p \in Peers : ChannelCloseEvent(p)) /\ UNCHANGED meshVars
  \/ (\E ch \in armed : StaleChannelClose(ch)) /\ UNCHANGED meshVars
  \/ (\E p \in Peers : ConnFailed(p)) /\ UNCHANGED meshVars

EventSpec == Init /\ [][EventNext]_vars

\* One client that is signalled, with its channels announced and opening
\* and frames arriving on them.
FrameNext ==
  \/ SignalNext
  \/ (\E p \in Peers : InboundChannel(p)) /\ UNCHANGED meshVars
  \/ (\E p \in Peers : ChannelOpen(p)) /\ UNCHANGED meshVars
  \/ (\E p \in Peers, data \in RawFrames : Message(p, data)) /\ UNCHANGED meshVars

FrameSpec == Init /\ [][FrameNext]_vars

\* ------------------------------------------- relay and clients together
\* The relay, the client with socket id MyId in full, and the other sockets
\* as far as they answer offers and receive jobs and chunks.

MaxEvents == 4
TheJob == [id |-> "j1", from |-> MyId, prompt |-> "hi", params |-> "p",
           messageId |-> "m1"]
\* The socket whose callbacks are followed; the target of the stream.
Receiver == "b"
ChunkStream ==
  <<[id |-> "c1", from |-> MyId, text |-> "t", done |-> "undefined",
     messageId |-> "m1"],
    [id |-> "c2", from |-> MyId, text |-> "t", done |-> "undefined",
     messageId |-> "m1"],
    [id |-> "c3", from |-> MyId, text |-> "t", done |-> "true",
     messageId |-> "m1"]>>
MeshRooms == {DefaultRoom, "b"}
MeshSockets == {MyId, "b", "c"}

\* What reaches the handlers modelled at socket q: rosters and signals at
\* MyId, signals, jobs and chunks at Receiver, signals at any other socket.
Kept(q, msgs) ==
  IF q = MyId THEN SelectSeq(msgs, LAMBDA m : m.ev \in {"roster", "signal"})
  ELSE IF q = Receiver THEN SelectSeq(msgs, LAMBDA m : m.ev # "roster")
  ELSE SelectSeq(msgs, LAMBDA m : m.ev = "signal")

\* The relay's emissions o arrive in the sockets' inboxes.
Deliver(ib, o) == [q \in Peers |-> ib[q] \o Kept(q, o[q])]
Pop(ib, q) == [ib EXCEPT ![q] = Tail(ib[q])]

\* socket.emit('signal', {to, from, data}) for the signals the step emitted.
NewSignals ==
  [i \in 1..(Len(emitted') - Len(emitted)) |->
     LET e == emitted'[Len(emitted) + i]
     IN [ev |-> "signal", msg |-> [to |-> e.to, from |-> MyId, data |-> e.data]]]

\* What a step of the client hands to its socket and to its channels.
Outgoing ==
  /\ toRelay' = toRelay \o NewSignals \o sent'
  /\ wire' = wire \o frames'

\* A step of the client that is no delivery and no call.
ClientOnly ==
  /\ Outgoing
  /\ UNCHANGED <<inbox, received, epoch, bcast, nChunks, remote>>

\* A socket connects, joins a room, or (any but MyId) disconnects.
\* What the far client makes of the event is added where these are used.
MConnect(p) ==
  /\ epoch < MaxEvents
  /\ Connect(p)
  /\ inbox' = Deliver(inbox, out')
  /\ epoch' = epoch + 1
  /\ UNCHANGED <<toRelay, wire, received, bcast, nChunks>>

MJoin(p, m) ==
  /\ epoch < MaxEvents
  /\ Join(p, m)
  /\ inbox' = Deliver(inbox, out')
  /\ epoch' = epoch + 1
  /\ UNCHANGED <<toRelay, wire, received, bcast, nChunks>>

MDisconnect(p) ==
  /\ epoch < MaxEvents
  /\ p # MyId
  /\ Disconnect(p)
  /\ inbox' = Deliver([inbox EXCEPT ![p] = <<>>], out')
  /\ epoch' = epoch + 1
  /\ UNCHANGED <<toRelay, wire, received, bcast, nChunks>>

\* The relay handles the next message of MyId's socket.
RelaysSignal ==
  /\ toRelay # <<>>
  /\ Head(toRelay).ev = "signal"
  /\ Signal(MyId, Head(toRelay).msg)
  /\ toRelay' = Tail(toRelay)
  /\ inbox' = Deliver(inbox, out')
  /\ UNCHANGED <<wire, received, epoch, bcast, nChunks, remote>>

RelaysJob ==
  /\ toRelay # <<>>
  /\ Head(toRelay).ev = "job"
  /\ Job(MyId, Head(toRelay).msg)
  /\ toRelay' = Tail(toRelay)
  /\ inbox' = Deliver(inbox, out')
  /\ UNCHANGED <<wire, received, epoch, bcast, nChunks, remote>>

RelaysChunk ==
  /\ toRelay # <<>>
  /\ Head(toRelay).ev = "chunk"
  /\ Chunk(MyId, Head(toRelay).msg)
  /\ toRelay' = Tail(toRelay)
  /\ inbox' = Deliver(inbox, out')
  /\ UNCHANGED <<wire, received, epoch, bcast, nChunks, remote>>

\* socket.on('roster') and socket.on('signal') at MyId.
GetsRoster ==
  /\ inbox[MyId] # <<>>
  /\ Head(inbox[MyId]).ev = "roster"
  /\ Roster(Head(inbox[MyId]).peers)
  /\ inbox' = Pop(inbox, MyId)
  /\ Outgoing
  /\ UNCHANGED <<received, epoch, bcast, nChunks, remote>>

GetsSignal ==
  /\ inbox[MyId] # <<>>
  /\ Head(inbox[MyId]).ev = "signal"
  /\ HandleSignal(Head(inbox[MyId]).from, Head(inbox[MyId]).data)
  /\ inbox' = Pop(inbox, MyId)
  /\ Outgoing
  /\ UNCHANGED <<received, epoch, bcast, nChunks, remote>>

\* The callback a socket's 'job' or 'chunk' handler makes: onJob(job),
\* onChunk(chunk).
SocketCallback(m) ==
  [cb |-> IF m.ev = "job" THEN "onJob" ELSE "onChunk", via |-> "relay", arg |-> m]

\* socket.on('job') / socket.on('chunk') at Receiver.
GetsJobOrChunk ==
  /\ inbox[Receiver] # <<>>
  /\ Head(inbox[Receiver]).ev \in {"job", "chunk"}
  /\ received' = [received EXCEPT
                    ![Receiver] = Append(@, SocketCallback(Head(inbox[Receiver])))]
  /\ inbox' = Pop(inbox, Receiver)
  /\ UNCHANGED <<toRelay, wire, epoch, bcast, nChunks, remote, relayVars, clientVars>>

\* handleSignal at another socket q for an offer: q answers, and the relay
\* handles the answer.
Answers(q) ==
  /\ q # MyId
  /\ inbox[q] # <<>>
  /\ Head(inbox[q]).ev = "signal"
  /\ Head(inbox[q]).data = "offer"
  /\ Signal(q, [to |-> Head(inbox[q]).from, from |-> q, data |-> "answer"])
  /\ inbox' = Deliver(Pop(inbox, q), out')
  /\ UNCHANGED <<toRelay, wire, received, epoch, bcast, nChunks, remote>>

\* The next frame arrives at the far end of its channel, unless the channel
\* or the far end is gone by then.
FrameArrives ==
  /\ wire # <<>>
  /\ LET f == Head(wire)
     IN received' =
          IF /\ readyState(f.ch) = "open"
             /\ status[f.peer] = "connected"
             /\ f.peer = Receiver
          THEN [received EXCEPT ![f.peer] = @ \o onmessage(f.data)]
          ELSE received
  /\ wire' = Tail(wire)
  /\ UNCHANGED <<inbox, toRelay, epoch, bcast, nChunks, remote, relayVars, clientVars>>

\* The registered channels that are open, by peer.
OpenChannels ==
  [p \in {x \in DOMAIN dataChannels : readyState(dataChannels[x]) = "open"} |->
     dataChannels[p]]

\* The application calls broadcastJob(TheJob), once.
CallsBroadcastJob ==
  /\ bcast.n = 0
  /\ BroadcastJob(TheJob)
  /\ Outgoing
  /\ bcast' = [n |-> 1, epoch |-> epoch, direct |-> OpenChannels]
  /\ UNCHANGED <<inbox, received, epoch, nChunks, remote>>

\* The application sends the next chunk of the stream to the target, with
\* both sockets connected to the relay.
CallsSendChunk ==
  /\ nChunks < Len(ChunkStream)
  /\ status[MyId] = "connected"
  /\ status[Receiver] = "connected"
  /\ SendChunk(Receiver, ChunkStream[nChunks + 1])
  /\ Outgoing
  /\ nChunks' = nChunks + 1
  /\ UNCHANGED <<inbox, received, epoch, bcast, remote>>

\* The sockets S come, change rooms and go.
MeshEvents(S) ==
  \/ \E p \in S : MConnect(p) /\ UNCHANGED remote
  \/ \E p \in S, r \in MeshRooms : MJoin(p, [room |-> r]) /\ UNCHANGED remote
  \/ \E p \in S : MDisconnect(p) /\ UNCHANGED remote

\* The client reconciles and negotiates, the other sockets answer.
MeshHandlers ==
  \/ RelaysSignal
  \/ GetsRoster
  \/ GetsSignal
  \/ \E q \in Peers : Answers(q)
  \/ \E t \in tasks : OfferCreated(t) /\ ClientOnly
  \/ \E t \in tasks : LocalDescriptionSet(t) /\ ClientOnly
  \/ \E t \in tasks : NegotiationRejected(t) /\ ClientOnly
  \/ \E t \in tasks : RemoteAnswerSet(t) /\ ClientOnly
  \/ \E t \in tasks : SignalSettled(t) /\ ClientOnly

RosterMeshNext == MeshEvents(MeshSockets) \/ MeshHandlers
RosterMeshSpec == Init /\ [][RosterMeshNext]_vars

\* The caller and the receiver alone, with the application streaming
\* chunks to the receiver.
ChunkMeshNext ==
  \/ MeshEvents({MyId, Receiver})
  \/ MeshHandlers
  \/ \E p \in Peers : ChannelOpen(p) /\ ClientOnly
  \/ CallsSendChunk
  \/ RelaysChunk
  \/ GetsJobOrChunk
  \/ FrameArrives

ChunkMeshSpec == Init /\ [][ChunkMeshNext]_vars

\* The caller and the receiver alone, with the application broadcasting a
\* job.
JobMeshNext ==
  \/ MeshEvents({MyId, Receiver})
  \/ MeshHandlers
  \/ \E p \in Peers : ChannelOpen(p) /\ ClientOnly
  \/ CallsBroadcastJob
  \/ RelaysJob
  \/ GetsJobOrChunk
  \/ FrameArrives

JobMeshSpec == Init /\ [][JobMeshNext]_vars

\* ------------------------------------------ two clients facing each other
\* The client at Receiver runs the same code as the one at MyId.  Of its
\* state the pair needs the connection map (per peer id: the connection
\* object, whether it was created as initiator, whether its offer was
\* emitted) and the createPeerConnection calls still awaiting their offer.

\* The roster messages among the relay's emissions o for socket q.
RostersOf(o, q) == SelectSeq(o[q], LAMBDA m : m.ev = "roster")

\* The relay's rosters for Receiver reach its socket; a disconnect of
\* Receiver ends that client (a later connect is a new client).
RemoteHears ==
  remote' =
    IF lastEvent'.type = "disconnect" /\ lastEvent'.peer = Receiver
    THEN [rosters |-> <<>>, peers |-> <<>>, tasks |-> {}, nextObj |-> remote.nextObj]
    ELSE [remote EXCEPT !.rosters = @ \o RostersOf(out', Receiver)]

\* The add loop of updatePeerConnections at Receiver over the ids todo, up
\* to its next await.
RemoteAdd(rm, todo) ==
  LET i == FirstNew(rm.peers, todo)
  IN IF i = 0 THEN rm
     ELSE [rm EXCEPT
             !.peers = MapSet(@, todo[i], [pc |-> rm.nextObj, initiator |-> TRUE,
                                          offered |-> FALSE]),
             !.nextObj = @ + 1,
             !.tasks = @ \cup {[pc |-> rm.nextObj, peer |-> todo[i],
                                todo |-> SubSeq(todo, i + 1, Len(todo))]}]

\* socket.on('roster') at Receiver: updatePeerConnections up to its first
\* await.
RemoteRoster ==
  /\ remote.rosters # <<>>
  /\ LET targetPeers == OtherPeers(Receiver, Head(remote.rosters).peers)
         kept == DOMAIN remote.peers \cap Range(targetPeers)
     IN remote' = RemoteAdd([remote EXCEPT !.rosters = Tail(@),
                                           !.peers = Restrict(@, kept)],
                            targetPeers)
  /\ UNCHANGED <<inbox, toRelay, wire, received, epoch, bcast, nChunks,
                 relayVars, clientVars>>

\* The connection object of task t is still the one registered at Receiver.
RemoteHolds(t) ==
  t.peer \in DOMAIN remote.peers /\ remote.peers[t.peer].pc = t.pc

\* createOffer and setLocalDescription resolve at Receiver: the offer is
\* emitted and the relay handles it; the add loop goes on.
RemoteOffers(t) ==
  /\ t \in remote.tasks
  /\ RemoteHolds(t)
  /\ Signal(Receiver, [to |-> t.peer, from |-> Receiver, data |-> "offer"])
  /\ inbox' = Deliver(inbox, out')
  /\ remote' = RemoteAdd([remote EXCEPT !.tasks = @ \ {t},
                                        !.peers[t.peer].offered = TRUE],
                         t.todo)
  /\ UNCHANGED <<toRelay, wire, received, epoch, bcast, nChunks>>

\* The connection was closed by a later roster while the call awaited it.
RemoteRejected(t) ==
  /\ t \in remote.tasks
  /\ ~RemoteHolds(t)
  /\ remote' = [remote EXCEPT !.tasks = @ \ {t}]
  /\ UNCHANGED <<inbox, toRelay, wire, received, epoch, bcast, nChunks,
                 relayVars, clientVars>>

\* handleSignal at Receiver up to its first await: without a connection for
\* `from` one is created as non-initiator.
RemoteCreates(rm, from) ==
  IF from \in DOMAIN rm.peers THEN rm
  ELSE [rm EXCEPT !.peers = MapSet(@, from, [pc |-> rm.nextObj,
                                            initiator |-> FALSE,
                                            offered |-> FALSE]),
                  !.nextObj = @ + 1]

\* handleSignal at Receiver for an offer: it answers, and the relay handles
\* the answer.
RemoteAnswers ==
  /\ inbox[Receiver] # <<>>
  /\ Head(inbox[Receiver]).ev = "signal"
  /\ Head(inbox[Receiver]).data = "offer"
  /\ remote' = RemoteCreates(remote, Head(inbox[Receiver]).from)
  /\ Signal(Receiver, [to |-> Head(inbox[Receiver]).from, from |-> Receiver,
                       data |-> "answer"])
  /\ inbox' = Deliver(Pop(inbox, Receiver), out')
  /\ UNCHANGED <<toRelay, wire, received, epoch, bcast, nChunks>>

\* handleSignal at Receiver for an answer: nothing is emitted.
RemoteTakesAnswer ==
  /\ inbox[Receiver] # <<>>
  /\ Head(inbox[Receiver]).ev = "signal"
  /\ Head(inbox[Receiver]).data = "answer"
  /\ remote' = RemoteCreates(remote, Head(inbox[Receiver]).from)
  /\ inbox' = Pop(inbox, Receiver)
  /\ UNCHANGED <<toRelay, wire, received, epoch, bcast, nChunks,
                 relayVars, clientVars>>

PairSockets == {MyId, Receiver}

PairNext ==
  \/ \E p \in PairSockets : MConnect(p) /\ RemoteHears
  \/ \E p \in PairSockets, r \in MeshRooms : MJoin(p, [room |-> r]) /\ RemoteHears
  \/ \E p \in PairSockets : MDisconnect(p) /\ RemoteHears
  \/ RelaysSignal
  \/ GetsRoster
  \/ GetsSignal
  \/ \E t \in tasks : OfferCreated(t) /\ ClientOnly
  \/ \E t \in tasks : LocalDescriptionSet(t) /\ ClientOnly
  \/ \E t \in tasks : NegotiationRejected(t) /\ ClientOnly
  \/ \E t \in tasks : RemoteOfferSet(t) /\ ClientOnly
  \/ \E t \in tasks : AnswerCreated(t) /\ ClientOnly
  \/ \E t \in tasks : LocalAnswerSet(t) /\ ClientOnly
  \/ \E t \in tasks : RemoteAnswerSet(t) /\ ClientOnly
  \/ \E t \in tasks : SignalSettled(t) /\ ClientOnly
  \/ RemoteRoster
  \/ \E t \in remote.tasks : RemoteOffers(t)
  \/ \E t \in remote.tasks : RemoteRejected(t)
  \/ RemoteAnswers
  \/ RemoteTakesAnswer

PairSpec == Init /\ [][PairNext]_vars

\* ------------------------------------------------ relay: observations
\* The member set of room r in a rooms map.
MembersOf(rm, r) == IF r \in DOMAIN rm THEN Range(rm[r]) ELSE {}
Members(r) == MembersOf(rooms, r)

\* The rooms of a rooms map that hold p.
RoomsOf(rm, p) == {r \in DOMAIN rm : p \in Range(rm[r])}

\* How many messages of kind ev the last event delivered to q (in o).
CountIn(o, q, ev) == Cardinality({i \in 1..Len(o[q]) : o[q][i].ev = ev})
Count(q, ev) == CountIn(out, q, ev)

\* The room the last connect / join / disconnect was about.
EventRoom ==
  IF lastEvent.type = "disconnect" THEN lastEvent.msg.room
  ELSE currentRoom[lastEvent.peer]

\* ------------------------------------------------------------- claims
\* C1: once two rosters R1, R2 have been delivered to the client and every
\* reconcile has run to completion, the keys of the connection map are R2
\* without the client's own id.
C1_ConnectionsMatchLastRoster ==
  (Len(rosterLog) = 2 /\ tasks = {}) =>
    DOMAIN peers = Range(OtherPeers(MyId, rosterLog[2]))

\* C2: in every reachable relay state each peer id is in the member set of
\* at most one room, and right after a join by p to room B, p is a member of
\* B (hence of no other room: the join left the previous room in the same
\* event).
C2_OneRoomPerPeer ==
  /\ \A p \in Peers : Cardinality(RoomsOf(rooms, p)) <= 1
  /\ lastEvent.type = "join" =>
       lastEvent.peer \in Members(RoomOrDefault(lastEvent.msg.room))

\* A peer has just moved to room "r" while "global" and "a" have members.
C2_Witness ==
  /\ lastEvent.type = "join"
  /\ lastEvent.msg.room = "r"
  /\ lastEvent.peer \in Members("r")
  /\ Members(DefaultRoom) # {}
  /\ Members("a") # {}

\* C3: after a join (the connection handler's joinRoom included) every
\* member of the target room, the joiner included, has been sent exactly one
\* roster message, and its id list is the member set of the room after the
\* join.
C3_RosterToEveryMember ==
  lastEvent.type \in {"join", "connect"} =>
    \A q \in Members(EventRoom) :
      /\ Len(out[q]) = 1
      /\ out[q][1].ev = "roster"
      /\ Range(out[q][1].peers) = Members(EventRoom)

\* A join into a room that then has at least two members.
C3_Witness ==
  /\ lastEvent.type = "join"
  /\ Cardinality(Members(EventRoom)) >= 2
  /\ \A q \in Members(EventRoom) : Count(q, "roster") = 1
\* C4 (as stated): every roster message sent to q lists the other members of
\* q's room and never q's own id.
C4_RosterExcludesRecipient ==
  \A q \in Peers : \A i \in 1..Len(out[q]) :
    out[q][i].ev = "roster" =>
      /\ q \notin Range(out[q][i].peers)
      /\ Range(out[q][i].peers) = Members(currentRoom[q]) \ {q}

\* C4 (amended): every roster message the relay sends is the full member
\* list of the room it is about, so a recipient that is a member finds its
\* own id in it; the list the recipient's client derives from it (its own
\* id filtered out) is the set of the other members and never holds the
\* recipient's id.
C4_RosterIsFullMemberList ==
  \A q \in Peers : \A i \in 1..Len(out[q]) :
    out[q][i].ev = "roster" =>
      LET ps == out[q][i].peers
      IN /\ Range(ps) = Members(EventRoom)
         /\ q \in Members(EventRoom) => q \in Range(ps)
         /\ q \notin Range(OtherPeers(q, ps))
         /\ Range(OtherPeers(q, ps)) = Members(EventRoom) \ {q}

\* A member of a room of two or more has been sent a roster holding its id.
C4_Witness ==
  \E q \in Peers :
    /\ Count(q, "roster") = 1
    /\ q \in Range(out[q][1].peers)
    /\ Len(out[q][1].peers) >= 2

\* C5: on every event of another peer, a peer that is a member of room r
\* before and after it is sent at most one roster if r's member set changed and none if it
\* did not (signal, job and chunk events included).
C5_RosterOnlyOnMembershipChange ==
  [][\A q \in Peers \ {lastEvent'.peer} : \A r \in RoomNames :
       (q \in MembersOf(rooms, r) /\ q \in MembersOf(rooms', r)) =>
         CountIn(out', q, "roster") <=
           (IF MembersOf(rooms', r) # MembersOf(rooms, r) THEN 1 ELSE 0)]_vars

\* C6 (as stated): a connected peer that has not sent a join is a member of
\* no room, and a connect event sends no roster to anybody.
C6_UnregisteredUntilJoin ==
  /\ \A p \in Peers :
       (status[p] = "connected" /\ p \notin joinSent) => RoomsOf(rooms, p) = {}
  /\ lastEvent.type = "connect" => \A q \in Peers : Count(q, "roster") = 0

\* The per-peer relay state: the rooms holding p ({} when unregistered).
C6_StateInv ==
  /\ \A p \in Peers :
       LET mine == RoomsOf(rooms, p)
       IN IF status[p] = "connected"
          THEN /\ mine = {currentRoom[p]}
               /\ p \notin joinSent => mine = {DefaultRoom}
          ELSE mine = {}
  /\ lastEvent.type = "connect" =>
       \A q \in Members(DefaultRoom) :
         /\ Count(q, "roster") = 1
         /\ Range(out[q][1].peers) = Members(DefaultRoom)

\* A step that changes the rooms holding p is p's own connect, join or
\* disconnect.
C6_Step ==
  \/ rooms' = rooms
  \/ \A p \in Peers :
       LET before == RoomsOf(rooms, p)
           after == RoomsOf(rooms', p)
       IN after # before =>
            /\ lastEvent'.peer = p
            /\ \/ /\ lastEvent'.type = "connect"
                  /\ before = {}
                  /\ after = {DefaultRoom}
               \/ /\ lastEvent'.type = "join"
                  /\ before # {}
                  /\ after = {RoomOrDefault(lastEvent'.msg.room)}
               \/ /\ lastEvent'.type = "disconnect"
                  /\ before # {}
                  /\ after = {}

\* C6 (amended): a peer that has connected but has not yet sent a join is
\* already a member of the default room "global" (and of no other): the
\* connection handler joins it there and sends every member of "global" one
\* roster.  A connected peer is always a member of exactly one room, a peer
\* that is not connected of none, and a peer's room changes only by its own
\* connect (none to "global"), join (A to B) or disconnect (to none).
C6_JoinedGlobalOnConnect == [][C6_Step /\ C6_StateInv']_vars

\* The second peer has just connected: both are in "global", neither has
\* sent a join.
C6_Witness ==
  /\ lastEvent.type = "connect"
  /\ lastEvent.peer \notin joinSent
  /\ Cardinality(Members(DefaultRoom)) >= 2
  /\ \A q \in Members(DefaultRoom) : Count(q, "roster") = 1

\* C7: when p, in room r, disconnects, p is no longer a member of r; every
\* remaining member of r is sent exactly one roster, equal to the remaining
\* member set; and no peer outside r is sent a roster.
C7_DisconnectRosterToRoomOnly ==
  lastEvent.type = "disconnect" =>
    LET r == lastEvent.msg.room
    IN /\ lastEvent.peer \notin Members(r)
       /\ \A q \in Members(r) :
            /\ Count(q, "roster") = 1
            /\ Len(out[q]) = 1
            /\ Range(out[q][1].peers) = Members(r)
       /\ \A q \in Peers \ Members(r) : Count(q, "roster") = 0

\* C8: a job emitted by s, whose room is r, is delivered exactly once to
\* every member of r other than s, and to nobody else.
C8_JobToRoomMembersOnly ==
  lastEvent.type = "job" =>
    \A q \in Peers :
      Count(q, "job") =
        (IF q \in Members(currentRoom[lastEvent.peer]) \ {lastEvent.peer}
         THEN 1 ELSE 0)

\* C9: a chunk emitted with to = t is delivered exactly once to the connected
\* peer whose id is t, and to no other peer.
C9_ChunkToTargetOnly ==
  lastEvent.type = "chunk" =>
    \A q \in Peers :
      Count(q, "chunk") =
        (IF q = lastEvent.msg.to /\ status[q] = "connected" THEN 1 ELSE 0)

\* C10: every signal, job and chunk the relay delivers carries the id of the
\* socket that emitted it as `from`, whatever `from` the sender's own
\* message held.
C10_FromIsSenderSocket ==
  lastEvent.type \in {"signal", "job", "chunk"} =>
    \A q \in Peers : \A i \in 1..Len(out[q]) :
      /\ out[q][i].ev = lastEvent.type
      /\ out[q][i].from = lastEvent.peer

\* A signal whose sender claimed another peer's id has been delivered.
C10_Witness ==
  /\ lastEvent.type = "signal"
  /\ lastEvent.msg.from # lastEvent.peer
  /\ \E q \in Peers : Count(q, "signal") = 1 /\ out[q][1].from = lastEvent.peer

\* The target of a signal or chunk is a peer currently connected to the relay.
TargetConnected(st, to) == to \in Peers /\ st[to] = "connected"

\* C11: a signal or chunk whose `to` matches no peer currently connected to
\* the relay is dropped: no message is delivered to any peer (so nothing goes
\* back to the sender either), and the relay's room map is unchanged.
C11_UnknownTargetDropped ==
  [][(/\ lastEvent'.type \in {"signal", "chunk"}
      /\ ~TargetConnected(status', lastEvent'.msg.to))
     => (out' = NoOut /\ rooms' = rooms)]_vars

\* The fields of the sender's message m that the delivered copy d holds with
\* the same value.
SameField(d, m, f) == f \in DOMAIN d /\ f \in DOMAIN m /\ d[f] = m[f]

\* C13: the copy of a job a recipient gets from the relay has the same id,
\* prompt, params and messageId as the job the sender passed to broadcastJob.
C13_RelayJobKeepsFields ==
  lastEvent.type = "job" =>
    \A q \in Peers : \A i \in 1..Len(out[q]) :
      \A f \in {"id", "prompt", "params", "messageId"} :
        SameField(out[q][i], lastEvent.msg, f)

\* C14: every copy of a chunk delivered to the target carries the same
\* messageId and the same id as the chunk the sender passed to sendChunk.
C14_ChunkKeepsDedupKey ==
  lastEvent.type = "chunk" =>
    \A q \in Peers : \A i \in 1..Len(out[q]) :
      \A f \in {"messageId", "id"} :
        SameField(out[q][i], lastEvent.msg, f)

\* The rooms some connected peer's closure holds as currentRoom.
OccupiedRooms == {currentRoom[p] : p \in {q \in Peers : status[q] = "connected"}}

\* C20: the room map never holds a room with an empty member set; a room is
\* in the map exactly while at least one connected peer is a member of it.
C20_NoEmptyRoom ==
  /\ \A r \in DOMAIN rooms : Len(rooms[r]) > 0
  /\ DOMAIN rooms = OccupiedRooms

\* The default room was created on connect and destroyed when its last member
\* moved to another room, which exists.
C20_Witness ==
  /\ lastEvent.type = "join"
  /\ DefaultRoom \notin DOMAIN rooms
  /\ rooms # <<>>

\* C15: sendChunk(p, chunk) emits exactly one chunk to the relay, addressed to
\* p and otherwise equal to chunk; it writes exactly one frame, holding the
\* chunk, on the channel registered for p if that channel is open and none
\* otherwise; it writes to no other channel, and to no channel that closed.
C15_Step ==
  lastCall'.op = "sendChunk" =>
    LET p == lastCall'.peer
        chunk == lastCall'.msg
        direct == p \in DOMAIN dataChannels /\ readyState(dataChannels[p]) = "open"
    IN /\ Len(sent') = 1
       /\ sent'[1].ev = "chunk"
       /\ sent'[1].msg.to = p
       /\ \A k \in DOMAIN chunk : sent'[1].msg[k] = chunk[k]
       /\ Len(frames') = (IF direct THEN 1 ELSE 0)
       /\ \A i \in 1..Len(frames') :
            /\ frames'[i].ch = dataChannels[p]
            /\ frames'[i].ch \notin closedChs
            /\ JsonParse(frames'[i].data).type = "chunk"
            /\ JsonParse(frames'[i].data).payload.id = chunk.id
C15_SendChunkPaths == [][C15_Step]_vars

\* A chunk went by both paths while another peer's channel was open too.
C15_Witness ==
  /\ lastCall.op = "sendChunk"
  /\ Len(sent) = 1
  /\ Len(frames) = 1
  /\ \E q \in DOMAIN dataChannels :
       q # lastCall.peer /\ readyState(dataChannels[q]) = "open"

\* C16: a frame is written only by a call and only to a channel that is open
\* at the call, so a job or chunk sent while the channel is registered but not
\* open is written neither then nor when the channel opens later; the call
\* still makes its emission to the relay.
C16_Step ==
  /\ lastCall'.op = "none" => frames' = <<>>
  /\ lastCall'.op \in {"broadcastJob", "sendChunk"} =>
       /\ \A i \in 1..Len(frames') : readyState(frames'[i].ch) = "open"
       /\ Len(sent') = 1
C16_NoWriteUnlessOpen == [][C16_Step]_vars

\* A chunk was sent to a peer whose channel is registered and still
\* connecting: it went to the relay, and nothing was written.
C16_Witness ==
  /\ lastCall.op = "sendChunk"
  /\ lastCall.peer \in DOMAIN dataChannels
  /\ readyState(dataChannels[lastCall.peer]) = "connecting"
  /\ frames = <<>>
  /\ Len(sent) = 1

Disconnects == {"disconnect", "socketDisconnect"}

\* C18: a disconnect leaves the connection map and the channel map empty, and
\* empty maps stay empty over every step that is not the receipt of a roster
\* or a signal, the resumption of suspended calls included.
C18_Step ==
  /\ lastCall'.op \in Disconnects => (peers' = <<>> /\ dataChannels' = <<>>)
  /\ (/\ peers = <<>> /\ dataChannels = <<>>
      /\ rosterLog' = rosterLog /\ sigLog' = sigLog)
       => (peers' = <<>> /\ dataChannels' = <<>>)
C18_EmptyAfterDisconnect == [][C18_Step]_vars

\* The reconcile of a roster of two new peers was suspended on its first
\* connection when the client disconnected (nothing else closes a connection
\* here); it has ended since, without having emitted an offer or created the
\* second connection.
C18_Witness ==
  /\ Len(rosterLog) = 1
  /\ Len(OtherPeers(MyId, rosterLog[1])) = 2
  /\ sigLog = {}
  /\ closedPcs = {1}
  /\ nextObj = 2
  /\ tasks = {}
  /\ emitted = <<>>
  /\ peers = <<>> /\ dataChannels = <<>>

\* Nothing is pending anywhere: no delivered message is unhandled, no
\* emission is unrelayed, no call is suspended, and no connection that was
\* established has lost its far end (its failure event would still come).
Quiet ==
  /\ \A q \in Peers : inbox[q] = <<>>
  /\ toRelay = <<>>
  /\ tasks = {}
  /\ \A x \in DOMAIN peers :
       Established(peers[x]) => status[x] = "connected"

\* C19: once the client is connected and nothing is pending, its connection
\* map has an entry for exactly the other members of its current room.
C19_MapMatchesRoom ==
  (status[MyId] = "connected" /\ Quiet)
    => DOMAIN peers = Members(currentRoom[MyId]) \ {MyId}


\* No message is on its way: every delivered message is handled, every
\* emission relayed, every frame arrived.
NothingInFlight ==
  /\ \A q \in Peers : inbox[q] = <<>>
  /\ toRelay = <<>>
  /\ wire = <<>>

\* The onChunk callbacks made at socket q for the chunk with id `id`.
ChunkCalls(q, id) ==
  {k \in 1..Len(received[q]) :
     received[q][k].cb = "onChunk" /\ received[q][k].arg.id = id}

\* The callback carries done = true.
IsDone(e) ==
  IF e.via = "relay" THEN e.arg.done
  ELSE "done" \in DOMAIN e.arg /\ e.arg.done = "true"

\* C17: when the whole stream c1, c2, c3 was sent to the target, sender and
\* target are connected to the relay and nothing is in flight any more, the
\* target's onChunk was invoked for each of the three chunks, and one
\* invocation carried done = true.
C17_StreamDelivered ==
  (/\ nChunks = Len(ChunkStream)
   /\ status[MyId] = "connected"
   /\ status[Receiver] = "connected"
   /\ NothingInFlight)
    => /\ \A i \in 1..Len(ChunkStream) :
            ChunkCalls(Receiver, ChunkStream[i].id) # {}
       /\ \E k \in 1..Len(received[Receiver]) :
            /\ received[Receiver][k].cb = "onChunk"
            /\ IsDone(received[Receiver][k])


\* The onJob callbacks made at socket q for the job with id `id`.
JobCalls(q, id) ==
  {k \in 1..Len(received[q]) :
     received[q][k].cb = "onJob" /\ received[q][k].arg.id = id}

\* Since the broadcast no socket connected, joined or disconnected; the
\* caller and b are connected and b is a member of the caller's room; the
\* channel to b that was open at the call is still registered and open.
SteadyPair(b) ==
  /\ bcast.n = 1
  /\ bcast.epoch = epoch
  /\ status[MyId] = "connected"
  /\ status[b] = "connected"
  /\ MyId \in Members(currentRoom[MyId])
  /\ b \in Members(currentRoom[MyId])
  /\ b \in DOMAIN bcast.direct
  /\ b \in DOMAIN dataChannels
  /\ dataChannels[b] = bcast.direct[b]
  /\ readyState(dataChannels[b]) = "open"

\* C12: with A and B in one room, both connected, and the channel between
\* them open, one broadcastJob(job) by A makes B's onJob fire with job.id and
\* with no other id, never more than twice, and exactly twice once nothing
\* is in flight.  B is Receiver.
C12_JobTwice ==
  SteadyPair(Receiver) =>
    /\ \A k \in 1..Len(received[Receiver]) :
         /\ received[Receiver][k].cb = "onJob"
         /\ received[Receiver][k].arg.id = TheJob.id
    /\ Cardinality(JobCalls(Receiver, TheJob.id)) <= 2
    /\ NothingInFlight => Cardinality(JobCalls(Receiver, TheJob.id)) = 2

C12_Witness ==
  /\ SteadyPair(Receiver)
  /\ NothingInFlight
  /\ Len(received[Receiver]) = 2
  /\ received[Receiver][1].via # received[Receiver][2].via



\* C26: when a join moves a peer out of a room that keeps other members,
\* the event delivers to each of them a roster with that room's remaining
\* member set.
C26_Step ==
  (lastEvent'.type = "join" /\ currentRoom'[lastEvent'.peer] # currentRoom[lastEvent'.peer])
    => \A q \in MembersOf(rooms', currentRoom[lastEvent'.peer]) :
         \E i \in 1..Len(RostersOf(out', q)) :
           Range(RostersOf(out', q)[i].peers)
             = MembersOf(rooms', currentRoom[lastEvent'.peer])
C26_LeftRoomGetsRoster == [][C26_Step]_vars

\* C27: every roster message a peer receives lists the members of the room
\* that peer is in, the peer itself among them.
C27_RosterOfOwnRoom ==
  \A q \in Peers :
    \A i \in 1..Len(RostersOf(out, q)) :
      /\ q \in Range(RostersOf(out, q)[i].peers)
      /\ Range(RostersOf(out, q)[i].peers) = Members(currentRoom[q])


\* C22: no candidate the client received is lost: each addIceCandidate call
\* that has ended has added its candidate to the connection.
C22_NoCandidateLost == \A c \in candidates : c[2] = "applied"

\* How many answers addressed to f are in the sequence e of emitted signals.
AnswersTo(e, f) ==
  Cardinality({i \in 1..Len(e) : e[i].to = f /\ e[i].data = "answer"})

\* C23: a signal from a peer f without a connection makes the client
\* register exactly one new connection for f, with no channel and nothing
\* emitted; a signal from a peer with a connection creates none.  An answer
\* is emitted only by the step that ends the handling of an offer, it is one
\* answer, addressed to the offer's sender; an offer is emitted only for a
\* connection that was not created for a signal.
C23_Step ==
  /\ sigLog' # sigLog =>
       LET f == (CHOOSE x \in sigLog' \ sigLog : TRUE)[1]
       IN /\ emitted' = emitted
          /\ dataChannels' = dataChannels
          /\ IF f \in DOMAIN peers
             THEN peers' = peers /\ nextObj' = nextObj
             ELSE /\ peers' = MapSet(peers, f, nextObj)
                  /\ nextObj' = nextObj + 1
                  /\ nextObj \notin armed'
  /\ emitted' # emitted =>
       /\ Len(emitted') = Len(emitted) + 1
       /\ SubSeq(emitted', 1, Len(emitted)) = emitted
       /\ LET e == emitted'[Len(emitted')]
          IN \E t \in tasks \ tasks' :
               /\ t.peer = e.to
               /\ IF e.data = "answer"
                  THEN t.at = "setLocalAnswer" /\ <<e.to, "offer">> \in sigLog
                  ELSE t.at = "setLocalDescription" /\ t.pc \notin answerers
  /\ \A f \in Peers :
       /\ AnswersTo(emitted', f) <= 1
       /\ (\E t \in tasks \ tasks' : t.peer = f /\ t.at = "setLocalAnswer"
                                      /\ t.pc \in negotiated' \ negotiated)
            => AnswersTo(emitted', f) = AnswersTo(emitted, f) + 1
C23_SignalHandling == [][C23_Step]_vars

C23_Witness ==
  /\ sigLog = {<<"b", "offer">>, <<"b", "candidate">>}
  /\ rosterLog = <<>>
  /\ DOMAIN peers = {"b"}
  /\ dataChannels = <<>>
  /\ emitted = <<[to |-> "b", data |-> "answer"]>>
  /\ tasks = {}


\* The step handles a roster that lists p, or a signal from p.
RosterOrSignalOf(p) ==
  \/ /\ rosterLog' # rosterLog
     /\ p \in Range(rosterLog'[Len(rosterLog')])
  \/ \E x \in sigLog' \ sigLog : x[1] = p

\* C24: the step in which a connection fails or is closed takes its peer's
\* entries out of both maps; and while a peer is dropped (its connection
\* failed or was closed, and no roster listing it and no signal from it has
\* been received since) a connection for it is created only by a step that
\* handles a roster listing that peer or a signal from it.
C24_Step ==
  /\ \A x \in (failedPcs' \cup closedPcs') \ (failedPcs \cup closedPcs) :
       /\ owner[x] \notin DOMAIN peers' \/ peers'[owner[x]] # x
       /\ x \in failedPcs' =>
            owner[x] \notin DOMAIN peers' \cup DOMAIN dataChannels'
  /\ \A x \in DOMAIN owner' \ DOMAIN owner :
       owner'[x] \in dropped => RosterOrSignalOf(owner'[x])
C24_DroppedUntilRosterOrSignal == [][C24_Step]_vars

\* C25: a frame that is no JSON makes no callback and leaves the maps and
\* the channel as they were; a job frame makes one onJob call with the
\* payload, a chunk frame one onChunk call, any other frame none.
C25_Step ==
  lastCall'.op = "onmessage" =>
    LET data == lastCall'.msg
        p == lastCall'.peer
        type == IF "json" \in DOMAIN data /\ "type" \in DOMAIN data.json
                THEN data.json.type ELSE ""
    IN /\ peers' = peers
       /\ dataChannels' = dataChannels
       /\ dataChannels'[p] \in openChs' \ closedChs'
       /\ ChPc(dataChannels'[p]) \notin closedPcs' \cup failedPcs'
       /\ Len(callbacks') = IF type \in {"job", "chunk"} THEN 1 ELSE 0
       /\ type = "job" =>
            callbacks'[1].cb = "onJob" /\ callbacks'[1].arg = data.json.payload
       /\ type = "chunk" =>
            callbacks'[1].cb = "onChunk" /\ callbacks'[1].arg = data.json.payload
C25_FrameDispatch == [][C25_Step]_vars

C25_Witness ==
  /\ lastCall.op = "onmessage"
  /\ "json" \in DOMAIN lastCall.msg
  /\ "type" \in DOMAIN lastCall.msg.json
  /\ lastCall.msg.json.type = "ping"
  /\ callbacks = <<>>
  /\ lastCall.peer \in DOMAIN dataChannels

\* C29: the close event of a channel object that is not the one registered
\* for its peer leaves that peer's registered channel in place.
C29_Step ==
  \A ch \in armed \ armed' :
    LET p == owner[ChPc(ch)]
    IN (p \in DOMAIN dataChannels /\ dataChannels[p] # ch)
         => (p \in DOMAIN dataChannels' /\ dataChannels'[p] = dataChannels[p])
C29_StaleEventKeepsCurrent == [][C29_Step]_vars

\* C30: every peer id with an entry in the channel map has one in the
\* connection map.
C30_ChannelHasConnection == DOMAIN dataChannels \subseteq DOMAIN peers

C30_Witness ==
  /\ failedPcs # {}
  /\ closedPcs # {}
  /\ armed # {}
  /\ \E p \in DOMAIN dataChannels : dataChannels[p] < 0


\* C28: each direct-channel frame a broadcastJob call writes goes to a peer
\* that is a member of the caller's current room at the relay.
C28_Step ==
  lastCall'.op = "broadcastJob" =>
    \A i \in 1..Len(frames') :
      frames'[i].peer \in Members(currentRoom[MyId])
C28_DirectCopiesStayInRoom == [][C28_Step]_vars


\* MyId holds a connection to q that it created as initiator (the locally
\* created channel is registered) and has emitted an offer to q.
OfferedTo(q) ==
  /\ q \in DOMAIN peers
  /\ q \in DOMAIN dataChannels
  /\ dataChannels[q] = peers[q]
  /\ \E i \in 1..Len(emitted) : emitted[i] = [to |-> q, data |-> "offer"]

\* Receiver holds a connection to q that it created as initiator and has
\* emitted its offer.
RemoteOfferedTo(q) ==
  /\ q \in DOMAIN remote.peers
  /\ remote.peers[q].initiator
  /\ remote.peers[q].offered

\* C21: two connected peers of one room never both hold an initiator
\* connection toward the other with its offer sent.
C21_OneInitiator ==
  (/\ status[MyId] = "connected"
   /\ status[Receiver] = "connected"
   /\ currentRoom[MyId] = currentRoom[Receiver]
   /\ Receiver \in Members(currentRoom[MyId])
   /\ MyId \in Members(currentRoom[MyId]))
    => ~(OfferedTo(Receiver) /\ RemoteOfferedTo(MyId))

====
